---- MODULE Spec2Model ----
(***************************************************************************)
(* Model of the marco_fq packet scheduler (src/tc_sch/marco_fq.c).         *)
(*                                                                         *)
(* Flow records live in slab slots (Slots); a slot keeps its last content  *)
(* after kmem_cache_free and may be handed out again by the allocator, so  *)
(* pointers to a released record read stale or re-used memory.  The two    *)
(* round-robin lists are modelled by their first/last/next pointers.       *)
(* Time is counted in ticks of TimeUnit nanoseconds, jiffies in seconds.   *)
(***************************************************************************)
EXTENDS Integers, Sequences, FiniteSets, TLC

\* ---------------------------------------------------------------- bounds
NumSlots == 2
MaxCalls == 3
MaxTicks == 2
MaxJiffies == 1
MaxPktLen == 3
BacklogLen == 2

\* ------------------------------------------------------------- constants
TimeUnit == 5 * 1000 * 1000
NSEC_PER_SEC == (1000 * 1000 * 1000) \div TimeUnit
IP_DELAY == (10 * 1000 * 1000) \div TimeUnit
IP_COUNT_MAX == 5
HZ == 1
FQ_GC_MAX == 8
FQ_GC_AGE == 3 * HZ
ULLONG_MAX == 2147483647
ULONG_MAX == 2147483646
NET_XMIT_SUCCESS == "NET_XMIT_SUCCESS"
NET_XMIT_DROP == "NET_XMIT_DROP"
ENOMEM == "ENOMEM"
EINVAL == "EINVAL"
Ok == "0"

\* pointers: slots 1..NumSlots hold allocated flow records
NULL == 0
INTERNAL == -1
THROTTLED == -2
Slots == 1 .. NumSlots
FlowPtrs == Slots \cup {INTERNAL, THROTTLED}

NoSkb == [id |-> 0]
NoEntry == -1

Max(a, b) == IF a >= b THEN a ELSE b
Min(a, b) == IF a <= b THEN a ELSE b

\* comparison of two u32 counters kept as their two's complement value
U32Gt(a, b) == IF (a < 0) = (b < 0) THEN a > b ELSE a < 0
U32Ge(a, b) == a = b \/ U32Gt(a, b)
\* max_t(u32, a, b) stored back into an int
MaxU32(a, b) == IF U32Gt(a, b) THEN a ELSE b

\* kmem_cache_zalloc'ed struct marco_fq_flow
ZeroFlow ==
  [sk |-> 0, socket_hash |-> 0, head |-> <<>>, t_root |-> <<>>,
   detached |-> FALSE, age |-> 0, qlen |-> 0, credit |-> 0,
   next |-> NULL, time_next_packet |-> 0, linked |-> FALSE]

VARIABLES flows, q, sch, ip_count_table, now, jiffies, ncall, ctl, last, acct

vars ==
  <<flows, q, sch, ip_count_table, now, jiffies, ncall, ctl, last, acct>>

\* the scheduler state handed through the handlers
State == [flows |-> flows, q |-> q, sch |-> sch, ip |-> ip_count_table]

\* ------------------------------------------------------------ flow flags
marco_fq_flow_set_detached(S, f, jif) ==
  [S EXCEPT !.flows[f].detached = TRUE,
            !.flows[f].age = IF jif % 2 = 0 THEN jif + 1 ELSE jif]

marco_fq_flow_is_detached(fl) == fl.detached

marco_fq_flow_is_throttled(fl) == fl.next = THROTTLED

\* variant: the flow is put in front of the list
marco_fq_flow_add_tail_AtHead(S, h, f) ==
  LET S1 == IF S.q[h].first # NULL THEN S ELSE [S EXCEPT !.q[h].last = f]
  IN [S1 EXCEPT !.flows[f].next = S.q[h].first, !.q[h].first = f]

marco_fq_flow_add_tail(S, h, f) ==
  LET S1 == IF S.q[h].first # NULL
            THEN [S EXCEPT !.flows[S.q[h].last].next = f]
            ELSE [S EXCEPT !.q[h].first = f]
  IN [S1 EXCEPT !.q[h].last = f, !.flows[f].next = NULL]

\* rb_erase of f->rate_node: the node leaves the tree q->delayed
EraseSeq(s, x) == SelectSeq(s, LAMBDA y : y # x)

\* variant: the flow goes back to the new list
marco_fq_flow_unset_throttled_ToNew(S, f) ==
  marco_fq_flow_add_tail(
    [S EXCEPT !.q.delayed = EraseSeq(@, f),
              !.q.throttled_flows = @ - 1],
    "new_flows", f)

marco_fq_flow_unset_throttled(S, f) ==
  marco_fq_flow_add_tail(
    [S EXCEPT !.q.delayed = EraseSeq(@, f),
              !.q.throttled_flows = @ - 1],
    "old_flows", f)

\* position of a new key in the in-order sequence of the rb-tree: after
\* every node whose key is <= the new key (the walk goes right on >=)
InsertPos(S, d, key) ==
  Cardinality({i \in 1 .. Len(d) : S.flows[d[i]].time_next_packet <= key})

InsertAt(s, k, x) == SubSeq(s, 1, k) \o <<x>> \o SubSeq(s, k + 1, Len(s))

\* variant: the tracked minimum is left as it was
marco_fq_flow_set_throttled_NoTrack(S, f) ==
  LET key == S.flows[f].time_next_packet
      d == S.q.delayed
  IN [S EXCEPT !.q.delayed = InsertAt(d, InsertPos(S, d, key), f),
               !.q.throttled_flows = @ + 1,
               !.flows[f].next = THROTTLED]

marco_fq_flow_set_throttled(S, f) ==
  LET key == S.flows[f].time_next_packet
      d == S.q.delayed
  IN [S EXCEPT !.q.delayed = InsertAt(d, InsertPos(S, d, key), f),
               !.q.throttled_flows = @ + 1,
               !.flows[f].next = THROTTLED,
               !.q.time_next_delayed_flow = IF @ > key THEN key ELSE @]

\* -------------------------------------------------------------------- gc
time_after(a, b) == a > b

marco_fq_gc_candidate(fl, jif) ==
  marco_fq_flow_is_detached(fl) /\ time_after(jif, fl.age + FQ_GC_AGE)

hash_ptr(sk, log) == (sk \div 2) % (2 ^ log)

\* the records the search path towards sk may cross in one shard
GcCandidates(S, sk, jif) ==
  {s \in Slots : /\ S.flows[s].linked
                 /\ S.flows[s].sk # sk
                 /\ hash_ptr(S.flows[s].sk, S.q.fq_trees_log)
                      = hash_ptr(sk, S.q.fq_trees_log)
                 /\ marco_fq_gc_candidate(S.flows[s], jif)}

\* tofree is the set of candidates met on the search path
marco_fq_gc(S, tofree) ==
  IF tofree = {} THEN S
  ELSE [S EXCEPT
         !.flows = [s \in FlowPtrs |->
                      IF s \in tofree THEN [@[s] EXCEPT !.linked = FALSE]
                      ELSE @[s]],
         !.q.flows = @ - Cardinality(tofree),
         !.q.inactive_flows = @ - Cardinality(tofree)]

\* ------------------------------------------------------------- classify
\* result of marco_fq_classify: the state, the flow and the (maybe orphaned) skb
ClassifyFound(S, skb, sk, f) ==
  IF skb.sk = sk /\ S.flows[f].socket_hash # skb.sk_hash
  THEN LET S1 == [S EXCEPT !.flows[f].credit = S.q.initial_quantum,
                           !.flows[f].socket_hash = skb.sk_hash]
           S2 == IF marco_fq_flow_is_throttled(S1.flows[f])
                 THEN marco_fq_flow_unset_throttled(S1, f)
                 ELSE S1
       IN [S |-> [S2 EXCEPT !.flows[f].time_next_packet = 0],
           f |-> f, skb |-> skb]
  ELSE [S |-> S, f |-> f, skb |-> skb]

\* variant: the record is taken as the allocator hands it out, neither
\* zeroed nor given the initial quantum
ClassifyNew_Stale(S, skb, sk, slot, jif) ==
  IF slot = NULL
  THEN [S |-> S, f |-> INTERNAL, skb |-> skb]
  ELSE LET S1 == [S EXCEPT !.flows[slot].linked = TRUE]
           S2 == marco_fq_flow_set_detached(S1, slot, jif)
           S3 == [S2 EXCEPT
                    !.flows[slot].sk = sk,
                    !.flows[slot].socket_hash =
                       IF skb.sk = sk THEN skb.sk_hash ELSE 0,
                    !.q.flows = @ + 1,
                    !.q.inactive_flows = @ + 1]
       IN [S |-> S3, f |-> slot, skb |-> skb]

ClassifyNew(S, skb, sk, slot, jif) ==
  IF slot = NULL
  THEN [S |-> S, f |-> INTERNAL, skb |-> skb]
  ELSE LET S1 == [S EXCEPT !.flows[slot] = [ZeroFlow EXCEPT !.linked = TRUE]]
           S2 == marco_fq_flow_set_detached(S1, slot, jif)
           S3 == [S2 EXCEPT
                    !.flows[slot].sk = sk,
                    !.flows[slot].socket_hash =
                       IF skb.sk = sk THEN skb.sk_hash ELSE 0,
                    !.flows[slot].credit = S.q.initial_quantum,
                    !.q.flows = @ + 1,
                    !.q.inactive_flows = @ + 1]
       IN [S |-> S3, f |-> slot, skb |-> skb]

\* the identity a packet is filed under
FlowKey(S, skb) ==
  IF skb.sk = NULL \/ skb.sk_state = "LISTEN" \/ skb.sk_state = "CLOSE"
  THEN 2 * (skb.hash % (S.q.orphan_mask + 1)) + 1
  ELSE skb.sk

GcRuns(S) ==
  /\ U32Ge(S.q.flows, 2 * (2 ^ S.q.fq_trees_log))
  /\ U32Gt(S.q.inactive_flows, S.q.flows \div 2)

Lookup(S, sk) == {s \in Slots : S.flows[s].linked /\ S.flows[s].sk = sk}

marco_fq_classify(S, skb0, slot, tofree, jif) ==
  IF skb0.prio
  THEN [S |-> S, f |-> INTERNAL, skb |-> skb0]
  ELSE LET sk == FlowKey(S, skb0)
           skb == IF skb0.sk = NULL \/ skb0.sk_state = "LISTEN"
                  THEN [skb0 EXCEPT !.sk = NULL]
                  ELSE skb0
           S1 == IF GcRuns(S) THEN marco_fq_gc(S, tofree) ELSE S
           found == Lookup(S1, sk)
       IN IF found # {}
          THEN ClassifyFound(S1, skb, sk, CHOOSE s \in found : TRUE)
          ELSE ClassifyNew(S1, skb, sk, slot, jif)

\* ------------------------------------------------------ per-flow ordering
\* variant: the FIFO head is taken whenever there is one
marco_fq_peek_HeadFirst(fl) ==
  IF fl.head # <<>> THEN Head(fl.head)
  ELSE IF fl.t_root # <<>> THEN Head(fl.t_root) ELSE NoSkb

marco_fq_peek(fl) ==
  IF fl.t_root = <<>>
  THEN IF fl.head = <<>> THEN NoSkb ELSE Head(fl.head)
  ELSE IF fl.head = <<>>
       THEN Head(fl.t_root)
       ELSE IF Head(fl.t_root).time_to_send < Head(fl.head).time_to_send
            THEN Head(fl.t_root)
            ELSE Head(fl.head)

marco_fq_erase_head(S, f, skb) ==
  IF S.flows[f].head # <<>> /\ Head(S.flows[f].head).id = skb.id
  THEN [S EXCEPT !.flows[f].head = Tail(@)]
  ELSE [S EXCEPT !.flows[f].t_root = SelectSeq(@, LAMBDA x : x.id # skb.id)]

marco_fq_dequeue_skb(S, f, skb) ==
  [marco_fq_erase_head(S, f, skb) EXCEPT
     !.flows[f].qlen = @ - 1,
     !.sch.backlog = @ - skb.len,
     !.sch.qlen = @ - 1]

TreePos(t, key) ==
  Cardinality({i \in 1 .. Len(t) : t[i].time_to_send <= key})

marco_flow_queue_add(S, f, skb) ==
  LET fl == S.flows[f] IN
  IF fl.head = <<>>
     \/ skb.time_to_send >= fl.head[Len(fl.head)].time_to_send
  THEN [S EXCEPT !.flows[f].head = Append(@, skb),
                 !.flows[f].detached = FALSE]
  ELSE [S EXCEPT !.flows[f].t_root =
                    InsertAt(@, TreePos(@, skb.time_to_send), skb)]

\* --------------------------------------------------------------- enqueue
\* variant: the horizon is counted from the deadline of the packet
marco_fq_packet_beyond_horizon_Late(skb, qd) ==
  skb.tstamp > skb.tstamp + qd.horizon

marco_fq_packet_beyond_horizon(skb, qd) ==
  skb.tstamp > qd.ktime_cache + qd.horizon

\* step 1 of enqueue: the time to send; drop is TRUE for a horizon drop
EnqueueStamp(S, skb, nw) ==
  IF skb.tstamp = 0
  THEN [S |-> [S EXCEPT !.q.ktime_cache = nw],
        skb |-> [skb EXCEPT !.time_to_send = nw], drop |-> FALSE]
  ELSE IF marco_fq_packet_beyond_horizon(skb, S.q)
       THEN LET S1 == [S EXCEPT !.q.ktime_cache = nw] IN
            IF marco_fq_packet_beyond_horizon(skb, S1.q)
            THEN IF S1.q.horizon_drop # 0
                 THEN [S |-> [S1 EXCEPT !.q.stat_horizon_drops = @ + 1],
                       skb |-> skb, drop |-> TRUE]
                 ELSE [S |-> [S1 EXCEPT !.q.stat_horizon_caps = @ + 1],
                       skb |-> [skb EXCEPT
                                  !.tstamp = nw + S1.q.horizon,
                                  !.time_to_send = nw + S1.q.horizon],
                       drop |-> FALSE]
            ELSE [S |-> S1,
                  skb |-> [skb EXCEPT !.time_to_send = skb.tstamp],
                  drop |-> FALSE]
       ELSE [S |-> S,
             skb |-> [skb EXCEPT !.time_to_send = skb.tstamp],
             drop |-> FALSE]

\* the part of enqueue after the per-flow limit test
EnqueueAdmit(S0, f, skb, ipfail, jif) ==
  LET S1 == [S0 EXCEPT !.flows[f].qlen = @ + 1,
                       !.sch.backlog = @ + skb.len]
      S2 == IF marco_fq_flow_is_detached(S1.flows[f])
            THEN LET A == marco_fq_flow_add_tail(S1, "new_flows", f)
                     B == IF time_after(jif, A.flows[f].age
                                              + A.q.flow_refill_delay)
                          THEN [A EXCEPT !.flows[f].credit =
                                           MaxU32(@, A.q.quantum)]
                          ELSE A
                 IN [B EXCEPT !.q.inactive_flows = @ - 1]
            ELSE S1
      key == <<skb.saddr, skb.daddr>>
  IN IF S2.ip[key] # NoEntry
     THEN LET S3 == [S2 EXCEPT !.ip[key] = @ + 1]
              S4 == marco_flow_queue_add(S3, f, skb)
          IN [S |-> [S4 EXCEPT !.sch.qlen = @ + 1],
              ret |-> NET_XMIT_SUCCESS, why |-> "queued", f |-> f, skb |-> skb]
     ELSE IF ipfail
          THEN [S |-> S2, ret |-> ENOMEM, why |-> "ip_count",
                f |-> f, skb |-> skb]
          ELSE LET S3 == [S2 EXCEPT !.ip[key] = 1]
                   S4 == marco_flow_queue_add(S3, f, skb)
               IN [S |-> [S4 EXCEPT !.sch.qlen = @ + 1],
                   ret |-> NET_XMIT_SUCCESS, why |-> "queued",
                   f |-> f, skb |-> skb]

\* variant: the internal flow is held to the per-flow limit too
FlowLimitHit_Internal(S, f) == S.flows[f].qlen >= S.q.flow_plimit

\* line 513: the per-flow limit, which the internal flow is exempt from
FlowLimitHit(S, f) == S.flows[f].qlen >= S.q.flow_plimit /\ f # INTERNAL

marco_fq_enqueue(S, skb0, slot, ipfail, tofree, nw, jif) ==
  IF S.sch.qlen >= S.sch.limit
  THEN [S |-> S, ret |-> NET_XMIT_DROP, why |-> "limit",
        f |-> NULL, skb |-> skb0]
  ELSE LET st == EnqueueStamp(S, skb0, nw) IN
       IF st.drop
       THEN [S |-> st.S, ret |-> NET_XMIT_DROP, why |-> "horizon",
             f |-> NULL, skb |-> skb0]
       ELSE LET c == marco_fq_classify(st.S, st.skb, slot, tofree, jif) IN
            IF FlowLimitHit(c.S, c.f)
            THEN [S |-> [c.S EXCEPT !.q.stat_flows_plimit = @ + 1],
                  ret |-> NET_XMIT_DROP, why |-> "flow_plimit",
                  f |-> c.f, skb |-> c.skb]
            ELSE EnqueueAdmit(c.S, c.f, c.skb, ipfail, jif)

\* --------------------------------------------------------------- dequeue
RECURSIVE UnthrottleLoop(_, _)
UnthrottleLoop(S, nw) ==
  IF S.q.delayed = <<>>
  THEN S
  ELSE LET f == Head(S.q.delayed) IN
       IF S.flows[f].time_next_packet > nw
       THEN [S EXCEPT !.q.time_next_delayed_flow =
                         S.flows[f].time_next_packet]
       ELSE UnthrottleLoop(marco_fq_flow_unset_throttled(S, f), nw)

marco_fq_check_throttled(S, nw) ==
  IF S.q.time_next_delayed_flow > nw
  THEN S
  ELSE UnthrottleLoop([S EXCEPT !.q.time_next_delayed_flow = ULLONG_MAX], nw)

\* the per-address counting of lines 657-680: the entry of the reverse
\* direction is decremented, and delays the packet while it is above 5
IpCountStep(S, skb) ==
  LET key == <<skb.daddr, skb.saddr>> IN
  IF S.ip[key] # NoEntry /\ S.ip[key] > 0
  THEN [S |-> [S EXCEPT !.ip[key] = @ - 1],
        delay |-> IF S.ip[key] - 1 > IP_COUNT_MAX THEN IP_DELAY ELSE 0]
  ELSE [S |-> S, delay |-> 0]

\* variant: the packet costs the flow nothing
Charge_Free(S, f, skb) == S

\* lines 712-713: the flow pays the length of the packet
Charge(S, f, skb) == [S EXCEPT !.flows[f].credit = @ - skb.len]

\* Drift without the correction
Drift_None(len, tnp, nw) == len

\* lines 757-758: the delay is cut by the time the flow is served late, by
\* half at most, once the flow has a next send time
Drift(len, tnp, nw) ==
  IF tnp # 0 THEN len - Min(len \div 2, nw - tnp) ELSE len

\* variant: a rate equal to the threshold is not a low rate
LowRateFlow_Below(S, rate) == rate < S.q.low_rate_threshold

\* line 729: the rate of the flow is at or below the low-rate threshold
LowRateFlow(S, rate) == rate <= S.q.low_rate_threshold

\* variant: pacing is never taken as disabled
PacingOff_Never(S) == FALSE

\* line 715: pacing is disabled
PacingOff(S) == S.q.rate_enable = 0

\* lines 712-762: credit and pacing once skb has left flow f
DequeuePace(S0, f, skb, nw) ==
  LET S == Charge(S0, f, skb) IN
  IF PacingOff(S)
  THEN S
  ELSE LET rate0 == S.q.flow_max_rate
           rate == IF skb.tstamp = 0 /\ skb.sk # NULL
                   THEN Min(skb.rate, rate0)
                   ELSE rate0
           low == skb.tstamp = 0 /\ LowRateFlow(S, rate)
           S1 == IF low THEN [S EXCEPT !.flows[f].credit = 0] ELSE S
           plen == IF skb.tstamp = 0 /\ ~low
                   THEN Max(skb.len, S.q.quantum)
                   ELSE skb.len
       IN IF skb.tstamp = 0 /\ ~low /\ S1.flows[f].credit > 0
          THEN S1
          ELSE IF rate = ULONG_MAX
               THEN S1
               ELSE LET len0 == plen * NSEC_PER_SEC
                        len1 == IF rate # 0 THEN len0 \div rate ELSE len0
                        len2 == IF len1 > NSEC_PER_SEC
                                THEN NSEC_PER_SEC ELSE len1
                        tnp == S1.flows[f].time_next_packet
                        len3 == Drift(len2, tnp, nw)
                    IN [S1 EXCEPT
                          !.flows[f].time_next_packet = nw + len3,
                          !.q.stat_pkts_too_long =
                             IF len1 > NSEC_PER_SEC THEN @ + 1 ELSE @]

\* SendTime without the packet's own deadline
SendTime_NoDeadline(skb, fl, delay) == fl.time_next_packet + delay

\* SendTime without the flow's next send time
SendTime_NoPacing(skb, fl, delay) == skb.time_to_send + delay

\* lines 654-655 and 676: the time before which skb of flow fl must wait
SendTime(skb, fl, delay) ==
  Max(skb.time_to_send, fl.time_next_packet) + delay

\* what one call of dequeue hands back: skb is the packet (NoSkb for NULL),
\* f the flow it came from, pre that flow's record when it was selected,
\* spin is set when the selection loop did not end within the fuel; tr
\* tells what the loop did on the way: the flows it took off the head of
\* their list (yielded), the flows it found without credit at the head of
\* the new list (spent), and whether it put a throttled flow into the
\* deferral index once more (twice)
NoTrace == [twice |-> FALSE, yielded |-> {}, spent |-> {}]

DeqResult(S, skb, f, pre, tnp, spin, tr) ==
  [S |-> S, skb |-> skb, f |-> f, credit |-> pre.credit,
   next_send |-> pre.time_next_packet, tnp |-> tnp,
   spin |-> spin, twice |-> tr.twice, yielded |-> tr.yielded,
   spent |-> tr.spent]

DeqFuel == 40

\* variant: a packet that leaves just as late as the threshold is late too
CeLate_OrEqual(nw, tnp, thr) == nw - tnp - thr >= 0

\* line 690: the packet leaves later than time_next_packet by more than the
\* congestion threshold
CeLate(nw, tnp, thr) == nw - tnp - thr > 0

\* variant: the flow is rotated without a refill
RefillVisit_NoCredit(S, head, f) ==
  marco_fq_flow_add_tail(
    [S EXCEPT !.q[head].first = S.flows[f].next], "old_flows", f)

\* lines 643-649: the flow at the head of a list has no credit left
RefillVisit(S, head, f) ==
  marco_fq_flow_add_tail(
    [S EXCEPT !.flows[f].credit = @ + S.q.quantum,
              !.q[head].first = S.flows[f].next],
    "old_flows", f)

RECURSIVE DequeueBegin(_, _, _, _, _)
DequeueBegin(S, nw, jif, fuel, tr) ==
  LET head == IF S.q.new_flows.first # NULL THEN "new_flows" ELSE "old_flows"
      f == S.q[head].first
  IN
  IF fuel = 0
  THEN DeqResult(S, NoSkb, NULL, ZeroFlow, 0, TRUE, tr)
  ELSE IF f = NULL
  THEN DeqResult(
         IF S.q.time_next_delayed_flow # ULLONG_MAX
         THEN [S EXCEPT !.q.watchdog = S.q.time_next_delayed_flow]
         ELSE S,
         NoSkb, NULL, ZeroFlow, 0, FALSE, tr)
  ELSE IF S.flows[f].credit <= 0
  THEN DequeueBegin(
         RefillVisit(S, head, f), nw, jif, fuel - 1,
         [tr EXCEPT !.yielded = @ \cup {f},
                    !.spent = IF head = "new_flows" THEN @ \cup {f} ELSE @])
  ELSE LET skb == marco_fq_peek(S.flows[f]) IN
       IF skb # NoSkb
       THEN LET ipc == IpCountStep(S, skb)
                time_next_packet == SendTime(skb, S.flows[f], ipc.delay)
            IN IF nw < time_next_packet
               THEN DequeueBegin(
                      marco_fq_flow_set_throttled(
                        [ipc.S EXCEPT
                           !.q[head].first = S.flows[f].next,
                           !.flows[f].time_next_packet = time_next_packet],
                        f),
                      nw, jif, fuel - 1,
                      [twice |-> tr.twice
                                 \/ marco_fq_flow_is_throttled(S.flows[f]),
                       yielded |-> tr.yielded \cup {f},
                       spent |-> tr.spent])
               ELSE LET S1 == IF CeLate(nw, time_next_packet,
                                        S.q.ce_threshold)
                              THEN [ipc.S EXCEPT !.q.stat_ce_mark = @ + 1]
                              ELSE ipc.S
                        S2 == marco_fq_dequeue_skb(S1, f, skb)
                    IN DeqResult(DequeuePace(S2, f, skb, nw), skb, f,
                                 S.flows[f], time_next_packet, FALSE, tr)
       ELSE LET S1 == [S EXCEPT !.q[head].first = S.flows[f].next] IN
            IF head = "new_flows" /\ S1.q.old_flows.first # NULL
            THEN DequeueBegin(marco_fq_flow_add_tail(S1, "old_flows", f),
                              nw, jif, fuel - 1,
                              [tr EXCEPT !.yielded = @ \cup {f}])
            ELSE DequeueBegin(
                   [marco_fq_flow_set_detached(S1, f, jif) EXCEPT
                      !.q.inactive_flows = @ + 1],
                   nw, jif, fuel - 1, [tr EXCEPT !.yielded = @ \cup {f}])

\* marco_fq_dequeue that looks at the internal flow only when both lists
\* are empty
marco_fq_dequeue_ListsFirst(S, nw, jif) ==
  IF S.sch.qlen = 0
  THEN DeqResult(S, NoSkb, NULL, ZeroFlow, 0, FALSE, NoTrace)
  ELSE LET skb == marco_fq_peek(S.flows[INTERNAL]) IN
       IF skb # NoSkb /\ S.q.new_flows.first = NULL
                      /\ S.q.old_flows.first = NULL
       THEN DeqResult(marco_fq_dequeue_skb(S, INTERNAL, skb), skb, INTERNAL,
                      S.flows[INTERNAL], 0, FALSE, NoTrace)
       ELSE DequeueBegin(
              marco_fq_check_throttled([S EXCEPT !.q.ktime_cache = nw], nw),
              nw, jif, DeqFuel, NoTrace)

marco_fq_dequeue(S, nw, jif) ==
  IF S.sch.qlen = 0
  THEN DeqResult(S, NoSkb, NULL, ZeroFlow, 0, FALSE, NoTrace)
  ELSE LET skb == marco_fq_peek(S.flows[INTERNAL]) IN
       IF skb # NoSkb
       THEN DeqResult(marco_fq_dequeue_skb(S, INTERNAL, skb), skb, INTERNAL,
                      S.flows[INTERNAL], 0, FALSE, NoTrace)
       ELSE DequeueBegin(
              marco_fq_check_throttled([S EXCEPT !.q.ktime_cache = nw], nw),
              nw, jif, DeqFuel, NoTrace)

\* ----------------------------------------------------------------- reset
marco_fq_flow_purge(fl) ==
  [fl EXCEPT !.t_root = <<>>, !.head = <<>>, !.qlen = 0]

\* variant: the deferral index is left as it is
marco_fq_reset_KeepDeferred(S) ==
  [S EXCEPT
     !.sch.qlen = 0,
     !.sch.backlog = 0,
     !.flows = [s \in FlowPtrs |->
                  IF s = INTERNAL THEN marco_fq_flow_purge(@[s])
                  ELSE IF s \in Slots /\ @[s].linked
                       THEN [marco_fq_flow_purge(@[s]) EXCEPT !.linked = FALSE]
                       ELSE @[s]],
     !.q.new_flows.first = NULL,
     !.q.old_flows.first = NULL,
     !.q.flows = 0,
     !.q.inactive_flows = 0,
     !.q.throttled_flows = 0]

marco_fq_reset(S) ==
  [S EXCEPT
     !.sch.qlen = 0,
     !.sch.backlog = 0,
     !.flows = [s \in FlowPtrs |->
                  IF s = INTERNAL THEN marco_fq_flow_purge(@[s])
                  ELSE IF s \in Slots /\ @[s].linked
                       THEN [marco_fq_flow_purge(@[s]) EXCEPT !.linked = FALSE]
                       ELSE @[s]],
     !.q.new_flows.first = NULL,
     !.q.old_flows.first = NULL,
     !.q.delayed = <<>>,
     !.q.flows = 0,
     !.q.inactive_flows = 0,
     !.q.throttled_flows = 0]

\* ---------------------------------------------------------------- resize
RehashFreed(S, jif) ==
  {s \in Slots : S.flows[s].linked /\ marco_fq_gc_candidate(S.flows[s], jif)}

marco_fq_rehash(S, jif) ==
  LET gone == RehashFreed(S, jif) IN
  [S EXCEPT
     !.flows = [s \in FlowPtrs |->
                  IF s \in gone THEN [@[s] EXCEPT !.linked = FALSE] ELSE @[s]],
     !.q.flows = @ - Cardinality(gone),
     !.q.inactive_flows = @ - Cardinality(gone)]

\* fq_root is set: the scheduler has been initialised
marco_fq_resize(S, log, allocfail, jif) ==
  IF log = S.q.fq_trees_log
  THEN [S |-> S, err |-> Ok]
  ELSE IF allocfail
       THEN [S |-> S, err |-> ENOMEM]
       ELSE [S |-> [marco_fq_rehash(S, jif) EXCEPT !.q.fq_trees_log = log],
             err |-> Ok]

\* ---------------------------------------------------------------- change
NoAttr == -1
Attrs == {"BUCKETS_LOG", "PLIMIT", "FLOW_PLIMIT", "QUANTUM",
          "INITIAL_QUANTUM", "FLOW_MAX_RATE", "LOW_RATE_THRESHOLD",
          "RATE_ENABLE", "FLOW_REFILL_DELAY", "ORPHAN_MASK", "CE_THRESHOLD",
          "TIMER_SLACK", "HORIZON", "HORIZON_DROP"}
NoOpt == [a \in Attrs |-> NoAttr]

\* microseconds to ticks and to jiffies (rounded up, as usecs_to_jiffies)
UsecToTicks(v) == v \div (TimeUnit \div 1000)
NsecToTicks(v) == v \div TimeUnit
usecs_to_jiffies(v) == (v + (1000000 \div HZ) - 1) \div (1000000 \div HZ)

Set(tb, a, old, new) == IF tb[a] # NoAttr THEN new ELSE old

\* lines 950-1031: every attribute of the message is stored as it is met
ChangeParams(S, tb) ==
  LET logok == tb.BUCKETS_LOG >= 1 /\ tb.BUCKETS_LOG <= 18
      qok == tb.QUANTUM > 0 /\ tb.QUANTUM <= 2 ^ 20
      enok == tb.RATE_ENABLE <= 1
      err == \/ (tb.BUCKETS_LOG # NoAttr /\ ~logok)
             \/ (tb.QUANTUM # NoAttr /\ ~qok)
             \/ (tb.RATE_ENABLE # NoAttr /\ ~enok)
  IN [S |-> [S EXCEPT
        !.sch.limit = Set(tb, "PLIMIT", @, tb.PLIMIT),
        !.q.flow_plimit = Set(tb, "FLOW_PLIMIT", @, tb.FLOW_PLIMIT),
        !.q.quantum = IF tb.QUANTUM # NoAttr /\ qok THEN tb.QUANTUM ELSE @,
        !.q.initial_quantum =
           Set(tb, "INITIAL_QUANTUM", @, tb.INITIAL_QUANTUM),
        !.q.flow_max_rate = Set(tb, "FLOW_MAX_RATE", @, tb.FLOW_MAX_RATE),
        !.q.low_rate_threshold =
           Set(tb, "LOW_RATE_THRESHOLD", @, tb.LOW_RATE_THRESHOLD),
        !.q.rate_enable =
           IF tb.RATE_ENABLE # NoAttr /\ enok THEN tb.RATE_ENABLE ELSE @,
        !.q.flow_refill_delay =
           Set(tb, "FLOW_REFILL_DELAY", @,
               usecs_to_jiffies(tb.FLOW_REFILL_DELAY)),
        !.q.orphan_mask = Set(tb, "ORPHAN_MASK", @, tb.ORPHAN_MASK),
        !.q.ce_threshold =
           Set(tb, "CE_THRESHOLD", @, UsecToTicks(tb.CE_THRESHOLD)),
        !.q.timer_slack = Set(tb, "TIMER_SLACK", @, NsecToTicks(tb.TIMER_SLACK)),
        !.q.horizon = Set(tb, "HORIZON", @, UsecToTicks(tb.HORIZON)),
        !.q.horizon_drop = Set(tb, "HORIZON_DROP", @, tb.HORIZON_DROP)],
      fq_log |-> IF tb.BUCKETS_LOG # NoAttr /\ logok
                 THEN tb.BUCKETS_LOG ELSE S.q.fq_trees_log,
      err |-> IF err THEN EINVAL ELSE Ok]

\* lines 1040-1049: packets are dequeued and freed while above the limit
RECURSIVE ChangeDrain(_, _, _, _)
ChangeDrain(S, nw, jif, dropped) ==
  IF S.sch.qlen > S.sch.limit
  THEN LET d == marco_fq_dequeue(S, nw, jif) IN
       IF d.skb = NoSkb
       THEN [S |-> d.S, dropped |-> dropped]
       ELSE ChangeDrain(d.S, nw, jif, Append(dropped, d.skb))
  ELSE [S |-> S, dropped |-> dropped]

\* ------------------------------------------------------------------ init
PSCHED_MTU == 1514
IpAddrs == {1, 2}
IpPairs == IpAddrs \X IpAddrs

\* marco_fq_init before the options are applied (lines 1071-1093)
InitSched ==
  [flows |-> [s \in FlowPtrs |-> ZeroFlow],
   q |-> [new_flows |-> [first |-> NULL, last |-> NULL],
          old_flows |-> [first |-> NULL, last |-> NULL],
          delayed |-> <<>>,
          time_next_delayed_flow |-> ULLONG_MAX,
          ktime_cache |-> 0,
          watchdog |-> 0,
          quantum |-> 2 * PSCHED_MTU,
          initial_quantum |-> 10 * PSCHED_MTU,
          flow_refill_delay |-> usecs_to_jiffies(40 * 1000),
          flow_plimit |-> 100,
          flow_max_rate |-> ULONG_MAX,
          ce_threshold |-> UsecToTicks(ULONG_MAX),
          horizon |-> 10 * NSEC_PER_SEC,
          orphan_mask |-> 1024 - 1,
          low_rate_threshold |-> 550000 \div 8,
          rate_enable |-> 1,
          fq_trees_log |-> 10,
          horizon_drop |-> 1,
          timer_slack |-> NsecToTicks(10 * 1000),
          flows |-> 0, inactive_flows |-> 0, throttled_flows |-> 0,
          stat_ce_mark |-> 0, stat_horizon_drops |-> 0,
          stat_horizon_caps |-> 0, stat_flows_plimit |-> 0,
          stat_pkts_too_long |-> 0],
   sch |-> [qlen |-> 0, limit |-> 10000, backlog |-> 0],
   ip |-> [k \in IpPairs |-> NoEntry]]

\* marco_fq_init with options: marco_fq_change on the fresh scheduler
marco_fq_init(tb) ==
  LET c == ChangeParams(InitSched, tb) IN
  [c.S EXCEPT !.q.fq_trees_log = c.fq_log]

\* what the last call did: its result, the packet and flow it was about,
\* and for dequeue the credit and next send time of the flow it served
NoLast ==
  [op |-> "none", ret |-> Ok, why |-> "", skb |-> NoSkb, f |-> NULL,
   credit |-> 0, next_send |-> 0, tnp |-> 0, spin |-> FALSE,
   twice |-> FALSE, dropped |-> <<>>]

CtlIdle == [pc |-> "idle", fq_log |-> 0, err |-> Ok]

\* the variables when the scheduler is in state S and nothing is going on;
\* ipt is the content of the module-wide address table when the scheduler
\* is created
InitFrom(S) ==
  /\ flows = S.flows
  /\ q = S.q
  /\ sch = S.sch
  /\ ip_count_table = S.ip
  /\ now = 0
  /\ jiffies = 0
  /\ ncall = 0
  /\ ctl = CtlIdle
  /\ last = NoLast

InitWith(tb, ipt) == InitFrom([marco_fq_init(tb) EXCEPT !.ip = ipt])


\* ------------------------------------------------------------ accounting
\* a record of what the scheduler was handed and what it gave back, kept
\* beside the scheduler; it is off unless a run starts with it on.
\* "deliver" keeps the packets admitted to the flow of PacedSock and not yet
\* returned; "drr" keeps for every flow record the credit it had when its
\* turn began and the bytes served in the turn, and the bytes served to
\* each socket
PacedSock == 2
Socks == {2, 4}
Occurs(sq, x) == Cardinality({i \in 1 .. Len(sq) : sq[i] = x})

\* the records met from p on in the flow records fs
RECURSIVE WalkIn(_, _, _)
WalkIn(fs, p, n) ==
  IF p = NULL \/ n = 0 THEN <<>> ELSE <<p>> \o WalkIn(fs, fs[p].next, n - 1)

NoAcct == [mode |-> "off"]

\* record s is idle: released, or linked on neither list and not in the
\* deferral index
OffLists(S, s) ==
  \/ ~S.flows[s].linked
  \/ /\ Occurs(WalkIn(S.flows, S.q.new_flows.first, NumSlots + 3), s) = 0
     /\ Occurs(WalkIn(S.flows, S.q.old_flows.first, NumSlots + 3), s) = 0
     /\ Occurs(S.q.delayed, s) = 0

\* "spent" keeps the records whose credit ran out at the head of the new
\* list and that have not been idle since
SpentAcct == [mode |-> "spent", set |-> {}]
NoTurn == [open |-> FALSE, credit |-> 0, bytes |-> 0, recycled |-> FALSE]
DeliverAcct == [mode |-> "deliver", pending |-> {}, dup |-> FALSE]
DrrAcct ==
  [mode |-> "drr", turn |-> [s \in Slots |-> NoTurn],
   bytes |-> [k \in Socks |-> 0], steady |-> TRUE, plain |-> TRUE]

\* "gc" keeps for every socket the flow record that was released for it as
\* it was when released (ZeroFlow if none), and in was the record whose
\* socket the last enqueue made a new record for
GcAcct ==
  [mode |-> "gc", old |-> [k \in Socks |-> ZeroFlow], was |-> ZeroFlow]

\* the records of S that are released on the way to T
Released(S, T) ==
  {s \in Slots : /\ S.flows[s].linked
                 /\ (~T.flows[s].linked \/ T.flows[s].sk # S.flows[s].sk)}

\* the released records are kept by socket
AcctFree(a, S, T) ==
  IF a.mode = "gc"
  THEN [a EXCEPT
          !.old = [k \in Socks |->
                     IF \E s \in Released(S, T) : S.flows[s].sk = k
                     THEN S.flows[CHOOSE s \in Released(S, T) :
                                    S.flows[s].sk = k]
                     ELSE @[k]],
          !.was = ZeroFlow]
  ELSE a

\* enqueue r found the record of its socket with another socket hash
Recycled(S, r) ==
  /\ r.f \in Slots
  /\ S.flows[r.f].linked
  /\ S.flows[r.f].sk = r.S.flows[r.f].sk
  /\ S.flows[r.f].socket_hash # r.S.flows[r.f].socket_hash

\* both sockets have a flow record with a packet queued
Backlogged(S) ==
  \A k \in Socks : \E s \in Slots :
    /\ S.flows[s].linked /\ S.flows[s].sk = k
    /\ S.flows[s].head \o S.flows[s].t_root # <<>>

\* a dequeue that went from S to T added the 10 ms of line 676
Penalised(S, T) ==
  \E k \in IpPairs :
    /\ S.ip[k] # NoEntry /\ S.ip[k] > IP_COUNT_MAX + 1 /\ T.ip[k] < S.ip[k]

AcctEnqueue(a, S, r) ==
  IF a.mode = "deliver"
  THEN IF r.ret = NET_XMIT_SUCCESS /\ r.f \in Slots /\ r.skb.sk = PacedSock
       THEN [a EXCEPT !.pending = @ \cup {r.skb.id}]
       ELSE a
  ELSE IF a.mode = "drr"
  THEN [a EXCEPT
          !.turn = [s \in Slots |->
                      IF s # r.f THEN @[s]
                      ELSE IF ~S.flows[s].linked THEN NoTurn
                      ELSE IF Recycled(S, r) /\ @[s].open
                           THEN [@[s] EXCEPT !.recycled = TRUE]
                           ELSE @[s]],
          !.plain = @ /\ ~Recycled(S, r)]
  ELSE IF a.mode = "gc"
  THEN LET b == AcctFree(a, S, r.S)
           k == r.skb.sk
       IN IF r.f \in Slots /\ k \in Socks /\ Lookup(S, k) = {}
          THEN [b EXCEPT !.was = b.old[k], !.old[k] = ZeroFlow]
          ELSE b
  ELSE IF a.mode = "spent"
  THEN [a EXCEPT !.set = {s \in @ : r.S.flows[s].linked}]
  ELSE a

AcctDequeue(a, S, d) ==
  IF a.mode = "deliver"
  THEN IF d.skb # NoSkb /\ d.f \in Slots /\ d.skb.sk = PacedSock
       THEN IF d.skb.id \in a.pending
            THEN [a EXCEPT !.pending = @ \ {d.skb.id}]
            ELSE [a EXCEPT !.dup = TRUE]
       ELSE a
  ELSE IF a.mode = "drr"
  THEN [a EXCEPT
          !.turn = [s \in Slots |->
                      IF s = d.f /\ d.skb # NoSkb
                      THEN IF @[s].open /\ s \notin d.yielded
                           THEN [@[s] EXCEPT !.bytes = @ + d.skb.len]
                           ELSE [open |-> TRUE, credit |-> d.credit,
                                 bytes |-> d.skb.len, recycled |-> FALSE]
                      ELSE IF s \in d.yielded THEN NoTurn ELSE @[s]],
          !.bytes = IF d.skb # NoSkb /\ d.f \in Slots /\ d.skb.sk \in Socks
                    THEN [@ EXCEPT ![d.skb.sk] = @ + d.skb.len]
                    ELSE @,
          !.steady = @ /\ Backlogged(d.S),
          !.plain = @ /\ ~Penalised(S, d.S)]
  ELSE IF a.mode = "gc"
  THEN [a EXCEPT !.was = ZeroFlow]
  ELSE IF a.mode = "spent"
  THEN [a EXCEPT !.set = {s \in @ \cup d.spent : ~OffLists(d.S, s)}]
  ELSE a

\* --------------------------------------------------------------- actions
Commit(S) ==
  /\ flows' = S.flows
  /\ q' = S.q
  /\ sch' = S.sch
  /\ ip_count_table' = S.ip

\* a packet as the stack hands it to enqueue; the addresses go with the
\* socket, and rate is the pacing rate of the socket
Skb(id, sk, prio, len, tstamp, rate) ==
  [id |-> id, sk |-> sk, sk_hash |-> 1, sk_state |-> "ESTABLISHED",
   prio |-> prio, len |-> len, tstamp |-> tstamp, hash |-> 0,
   saddr |-> sk \div 2, daddr |-> 3 - (sk \div 2),
   rate |-> rate, time_to_send |-> 0]

\* a released record that a list head or another record still points to
Dangling(S, s) ==
  \/ s \in {S.q.new_flows.first, S.q.new_flows.last,
            S.q.old_flows.first, S.q.old_flows.last}
  \/ \E x \in FlowPtrs : S.flows[x].next = s
  \/ \E i \in 1 .. Len(S.q.delayed) : S.q.delayed[i] = s

\* the objects kmem_cache_zalloc may return: any free one; free objects
\* that nothing points to are interchangeable and the lowest stands for them
FreeSlots(S, tofree) ==
  LET free == {s \in Slots : ~S.flows[s].linked} \cup tofree
      clean == {s \in free : ~Dangling(S, s)}
  IN {s \in free : Dangling(S, s)}
     \cup {s \in clean : \A t \in clean : s <= t}

\* the choices the allocators and the tree walk leave open for this packet
SlotChoices(S, skb, tofree) ==
  IF ~skb.prio /\ Lookup(S, FlowKey(S, skb)) = {}
  THEN FreeSlots(S, tofree) \cup {NULL}
  ELSE {NULL}

IpFailChoices(S, skb) ==
  IF S.ip[<<skb.saddr, skb.daddr>>] = NoEntry THEN BOOLEAN ELSE {FALSE}

GcChoices(S, skb, jif) ==
  IF ~skb.prio /\ GcRuns(S)
  THEN {t \in SUBSET GcCandidates(S, FlowKey(S, skb), jif) :
          Cardinality(t) <= FQ_GC_MAX}
  ELSE {{}}

Enqueue(skb) ==
  /\ ncall < MaxCalls
  /\ \E tofree \in GcChoices(State, skb, jiffies) :
     \E slot \in SlotChoices(State, skb, tofree) :
     \E ipfail \in IpFailChoices(State, skb) :
       LET r == marco_fq_enqueue(State, skb, slot, ipfail, tofree,
                                 now, jiffies)
       IN /\ Commit(r.S)
          /\ last' = [NoLast EXCEPT !.op = "enqueue", !.ret = r.ret,
                                    !.why = r.why, !.skb = r.skb,
                                    !.f = r.f]
          /\ acct' = AcctEnqueue(acct, State, r)
  /\ ncall' = ncall + 1
  /\ UNCHANGED <<now, jiffies, ctl>>

DequeueLast(d) ==
  [NoLast EXCEPT !.op = "dequeue", !.skb = d.skb, !.f = d.f,
                 !.credit = d.credit, !.next_send = d.next_send,
                 !.tnp = d.tnp, !.spin = d.spin, !.twice = d.twice]

Dequeue ==
  /\ LET d == marco_fq_dequeue(State, now, jiffies) IN
       /\ Commit(d.S)
       /\ last' = DequeueLast(d)
       /\ acct' = AcctDequeue(acct, State, d)
  /\ UNCHANGED <<now, jiffies, ncall, ctl>>

Reset ==
  /\ ctl.pc = "idle"
  /\ ncall < MaxCalls
  /\ Commit(marco_fq_reset(State))
  /\ last' = [NoLast EXCEPT !.op = "reset"]
  /\ ncall' = ncall + 1
  /\ UNCHANGED <<now, jiffies, ctl, acct>>

\* marco_fq_change up to the point where it gives up the lock; with an
\* invalid attribute it keeps the lock and goes on to the draining
ChangeBegin(tb) ==
  /\ ctl.pc = "idle"
  /\ ncall < MaxCalls
  /\ ncall' = ncall + 1
  /\ LET c == ChangeParams(State, tb) IN
       IF c.err = Ok
       THEN /\ Commit(c.S)
            /\ ctl' = [pc |-> "resize", fq_log |-> c.fq_log, err |-> Ok]
            /\ last' = [NoLast EXCEPT !.op = "change_params"]
       ELSE LET d == ChangeDrain(c.S, now, jiffies, <<>>) IN
            /\ Commit(d.S)
            /\ ctl' = CtlIdle
            /\ last' = [NoLast EXCEPT !.op = "change", !.ret = c.err,
                                      !.dropped = d.dropped]
  /\ UNCHANGED <<now, jiffies, acct>>

ChangeResize ==
  /\ ctl.pc = "resize"
  /\ \E allocfail \in BOOLEAN :
       LET r == marco_fq_resize(State, ctl.fq_log, allocfail, jiffies) IN
       /\ Commit(r.S)
       /\ ctl' = [ctl EXCEPT !.pc = "drain", !.err = r.err]
       /\ acct' = AcctFree(acct, State, r.S)
  /\ last' = [NoLast EXCEPT !.op = "change_resize"]
  /\ UNCHANGED <<now, jiffies, ncall>>

ChangeEnd ==
  /\ ctl.pc = "drain"
  /\ LET d == ChangeDrain(State, now, jiffies, <<>>) IN
       /\ Commit(d.S)
       /\ last' = [NoLast EXCEPT !.op = "change", !.ret = ctl.err,
                                 !.dropped = d.dropped]
  /\ ctl' = CtlIdle
  /\ UNCHANGED <<now, jiffies, ncall, acct>>

\* the clocks: a tick of ktime, or a second during which jiffies move too
Tick ==
  /\ now % NSEC_PER_SEC < MaxTicks
  /\ now' = now + 1
  /\ last' = NoLast
  /\ UNCHANGED <<flows, q, sch, ip_count_table, jiffies, ncall, ctl, acct>>

Sleep ==
  /\ jiffies < MaxJiffies * HZ
  /\ now' = now + NSEC_PER_SEC
  /\ jiffies' = jiffies + HZ
  /\ last' = NoLast
  /\ UNCHANGED <<flows, q, sch, ip_count_table, ncall, ctl, acct>>

\* the watchdog timer that dequeue armed expires: the time it was set for
\* has come
Watchdog ==
  /\ q.watchdog > now
  /\ now' = q.watchdog
  /\ last' = NoLast
  /\ UNCHANGED <<flows, q, sch, ip_count_table, jiffies, ncall, ctl, acct>>

\* the watchdog timer fires late, or dequeue runs late after it: the clock
\* is up to MaxTicks past the time the timer was set for
Lag ==
  /\ q.watchdog > 0
  /\ q.watchdog <= now
  /\ now < q.watchdog + MaxTicks
  /\ now' = now + 1
  /\ last' = NoLast
  /\ UNCHANGED <<flows, q, sch, ip_count_table, jiffies, ncall, ctl, acct>>

\* nothing is asked of the scheduler for longer than the age at which an
\* idle flow may be collected
Idle ==
  /\ ctl.pc = "idle"
  /\ jiffies < MaxJiffies * (FQ_GC_AGE + 2 * HZ)
  /\ jiffies' = jiffies + FQ_GC_AGE + 2 * HZ
  /\ now' = now + ((FQ_GC_AGE + 2 * HZ) \div HZ) * NSEC_PER_SEC
  /\ last' = NoLast
  /\ UNCHANGED <<flows, q, sch, ip_count_table, ncall, ctl, acct>>

\* ---------------------------------------------------------- data path
\* a small configuration: horizon of two ticks, pacing on
SmallOpt ==
  [NoOpt EXCEPT !.PLIMIT = 3, !.FLOW_PLIMIT = 2, !.QUANTUM = 2,
                !.INITIAL_QUANTUM = 2, !.BUCKETS_LOG = 1,
                !.LOW_RATE_THRESHOLD = 100, !.FLOW_REFILL_DELAY = 0,
                !.HORIZON = 2 * (TimeUnit \div 1000),
                !.CE_THRESHOLD = 0]

NoIpCounts == [k \in IpPairs |-> NoEntry]

\* socket 2 is paced at one quantum per tick and sends with and without a
\* deadline, socket 4 is not paced; a control packet of socket 2, with a
\* deadline, goes to the internal flow
Skbs ==
  {Skb(ncall + 1, 2, FALSE, 1, ts, 2 * NSEC_PER_SEC) : ts \in {0, now + 1}}
  \cup {Skb(ncall + 1, 4, FALSE, 1, 0, ULONG_MAX),
         Skb(ncall + 1, 2, TRUE, 1, now + 1, 2 * NSEC_PER_SEC)}

Init == InitWith(SmallOpt, NoIpCounts) /\ acct = NoAcct

Next ==
  \/ \E skb \in Skbs : Enqueue(skb)
  \/ Dequeue
  \/ Tick

Spec == Init /\ [][Next]_vars

\* ------------------------------------------------------- control path
\* the configuration messages tried: a lower packet limit, more buckets,
\* and a message whose quantum is refused
Deltas ==
  {[NoOpt EXCEPT !.PLIMIT = 1],
   [NoOpt EXCEPT !.BUCKETS_LOG = 2],
   [NoOpt EXCEPT !.PLIMIT = 1, !.QUANTUM = 0]}

CtlSkbs ==
  {Skb(ncall + 1, sk, FALSE, 1, ts, ULONG_MAX) :
     sk \in {2, 4}, ts \in {0, now + 1}}

NextCtl ==
  \/ \E skb \in CtlSkbs : Enqueue(skb)
  \/ Dequeue
  \/ Tick
  \/ Sleep
  \/ Reset
  \/ \E tb \in Deltas : ChangeBegin(tb)
  \/ ChangeResize
  \/ ChangeEnd

SpecCtl == Init /\ [][NextCtl]_vars

\* ------------------------------------------------- dequeue called for ever
\* the paced socket 2, which also sends control packets, and the unpaced
\* socket 4; dequeue is called again and again, and the clock goes to the
\* time the watchdog timer is set for
FairSkbs ==
  {Skb(ncall + 1, PacedSock, prio, 1, 0, 2 * NSEC_PER_SEC) : prio \in BOOLEAN}
  \cup {Skb(ncall + 1, 4, FALSE, 1, ts, ULONG_MAX) : ts \in {0, now + 1}}

InitFair == InitWith(SmallOpt, NoIpCounts) /\ acct = DeliverAcct

NextFair ==
  \/ \E skb \in FairSkbs : Enqueue(skb)
  \/ Dequeue
  \/ Watchdog

\* one more call of dequeue would hand back nothing and change nothing
DequeueIdle ==
  LET d == marco_fq_dequeue(State, now, jiffies) IN
  /\ d.S = State
  /\ last = DequeueLast(d)
  /\ acct = AcctDequeue(acct, State, d)

\* weak fairness of Dequeue, with its enabling condition written out
FairDequeue == []<>DequeueIdle \/ []<><<Dequeue>>_vars

SpecFair ==
  InitFair /\ [][NextFair]_vars /\ FairDequeue /\ WF_vars(Watchdog)

\* --------------------------------------------------- two backlogged flows
\* pacing is off, the initial quantum is above the quantum
DrrOpt ==
  [NoOpt EXCEPT !.PLIMIT = 2 * BacklogLen + MaxCalls,
                !.FLOW_PLIMIT = BacklogLen + MaxCalls,
                !.QUANTUM = 2, !.INITIAL_QUANTUM = 3, !.BUCKETS_LOG = 1,
                !.RATE_ENABLE = 0, !.FLOW_REFILL_DELAY = 0,
                !.HORIZON = 2 * (TimeUnit \div 1000), !.CE_THRESHOLD = 0]

Lens == {1, MaxPktLen}

\* the address table as an earlier scheduler of the module left it: seven
\* packets were counted from address 2 to address 1
HotIpCounts == [k \in IpPairs |-> IF k = <<2, 1>> THEN 7 ELSE NoEntry]

\* n packets for each socket, handed over in turn: of length len for
\* socket 2 and of the greatest length for socket 4
RECURSIVE Backlog(_, _)
Backlog(len, n) ==
  IF n = 0 THEN <<>>
  ELSE Backlog(len, n - 1)
       \o <<Skb(0 - 2 * n, 2, FALSE, len, 0, ULONG_MAX),
            Skb(0 - 2 * n - 1, 4, FALSE, MaxPktLen, 0, ULONG_MAX)>>

\* the scheduler after pkts were enqueued one after the other at time 0
RECURSIVE Preload(_, _)
Preload(S, pkts) ==
  IF pkts = <<>> THEN S
  ELSE LET skb == Head(pkts)
           slot == IF Lookup(S, FlowKey(S, skb)) = {}
                   THEN CHOOSE x \in FreeSlots(S, {}) : TRUE
                   ELSE NULL
       IN Preload(marco_fq_enqueue(S, skb, slot, FALSE, {}, 0, 0).S,
                  Tail(pkts))

\* later packets: of either socket, or of socket 2 after it was closed
\* and its memory given to a new socket with another hash
DrrSkbs ==
  {Skb(ncall + 1, k, FALSE, MaxPktLen, 0, ULONG_MAX) : k \in Socks}
  \cup {[Skb(ncall + 1, 2, FALSE, MaxPktLen, 0, ULONG_MAX)
           EXCEPT !.sk_hash = 2]}

InitDrr ==
  /\ \E len \in Lens : \E ipt \in {NoIpCounts, HotIpCounts} :
       InitFrom(Preload([marco_fq_init(DrrOpt) EXCEPT !.ip = ipt],
                        Backlog(len, BacklogLen)))
  /\ acct = DrrAcct

NextDrr ==
  \/ \E skb \in DrrSkbs : Enqueue(skb)
  \/ Dequeue
  \/ Watchdog

SpecDrr == InitDrr /\ [][NextDrr]_vars

\* ------------------------------------------------------------- reset
\* socket 2 sends with a deadline one tick ahead, socket 4 without, and a
\* control packet goes to the internal flow; the scheduler is reset at any
\* moment
ResetSkbs ==
  {Skb(ncall + 1, 2, FALSE, 1, now + 1, ULONG_MAX),
   Skb(ncall + 1, 4, FALSE, 1, 0, ULONG_MAX),
   Skb(ncall + 1, 4, TRUE, 1, 0, ULONG_MAX)}

NextReset ==
  \/ \E skb \in ResetSkbs : Enqueue(skb)
  \/ Dequeue
  \/ Reset

SpecReset == Init /\ [][NextReset]_vars

\* --------------------------------------------------------- admission
\* socket 2 sends without a deadline, socket 4 with a deadline one tick
\* ahead or one tick beyond the horizon
AdmSkbs ==
  {Skb(ncall + 1, 4, FALSE, 1, now + d, ULONG_MAX) : d \in {1, 3}}
  \cup {Skb(ncall + 1, 2, FALSE, 1, 0, ULONG_MAX)}

NextAdm ==
  \/ \E skb \in AdmSkbs : Enqueue(skb)
  \/ Dequeue
  \/ Tick

SpecAdm == Init /\ [][NextAdm]_vars

\* ------------------------------------------------------- idle flows
\* pacing is off and the quantum is above the initial quantum
IdleOpt(iq) ==
  [NoOpt EXCEPT !.PLIMIT = 3, !.FLOW_PLIMIT = 2, !.QUANTUM = 3,
                !.INITIAL_QUANTUM = iq, !.BUCKETS_LOG = 1,
                !.RATE_ENABLE = 0, !.FLOW_REFILL_DELAY = 0,
                !.HORIZON = 2 * (TimeUnit \div 1000), !.CE_THRESHOLD = 0]

\* socket 2 without a deadline and socket 4 with a deadline one tick ahead
IdleSkbs ==
  {Skb(ncall + 1, 2, FALSE, 1, 0, ULONG_MAX),
   Skb(ncall + 1, 4, FALSE, 1, now + 1, ULONG_MAX)}

\* the number of buckets goes from 2 to 4
IdleDeltas == {[NoOpt EXCEPT !.BUCKETS_LOG = 2]}

\* the scheduler after n packets of socket 2 were enqueued at time 0
Started(tb, n) ==
  Preload(marco_fq_init(tb),
          [i \in 1 .. n |-> Skb(0 - i, 2, FALSE, 1, 0, ULONG_MAX)])

\* the scheduler starts empty or with one packet of socket 2
InitIdle ==
  /\ \E n \in {0, 1} : InitFrom(Started(IdleOpt(1), n))
  /\ acct = GcAcct

NextIdle ==
  \/ \E skb \in IdleSkbs : Enqueue(skb)
  \/ Dequeue
  \/ Idle
  \/ \E tb \in IdleDeltas : ChangeBegin(tb)
  \/ ChangeResize
  \/ ChangeEnd

SpecIdle == InitIdle /\ [][NextIdle]_vars

\* ------------------------------------------------------ idle flows come back
\* TCA_FQ_INITIAL_QUANTUM is a u32 that marco_fq_change stores unchecked;
\* 4294967294 is held as the int it becomes in f->credit
HugeQuantum == 0 - 2

\* packets of socket 2, before and after the socket was closed and its
\* memory given to a new socket with another hash, and packets of socket 4
RefillSkbs ==
  {[Skb(ncall + 1, 2, FALSE, 1, 0, ULONG_MAX) EXCEPT !.sk_hash = h] :
     h \in {1, 2}}
  \cup {Skb(ncall + 1, 4, FALSE, 1, 0, ULONG_MAX)}

\* the initial quantum is 1 or 4294967294, the quantum is 3
InitRefill ==
  /\ \E iq \in {1, HugeQuantum}, n \in {0, 1} :
       InitFrom(Started(IdleOpt(iq), n))
  /\ acct = SpentAcct

NextRefill ==
  \/ \E skb \in RefillSkbs : Enqueue(skb)
  \/ Dequeue
  \/ Idle

SpecRefill == InitRefill /\ [][NextRefill]_vars

\* --------------------------------------------------------- pacing options
\* pacing is enabled without a flow rate cap, or with a cap of 100 bytes a
\* second (two ticks a byte) that is above the low-rate threshold or equal
\* to it, or disabled with that cap; the congestion threshold is 0
LowRate == 100

PaceOpt(en, rate, low) ==
  [IdleOpt(1) EXCEPT !.RATE_ENABLE = en, !.FLOW_MAX_RATE = rate,
                     !.LOW_RATE_THRESHOLD = low]

\* packets of socket 2, without a deadline or with one a tick ahead, and
\* without a deadline after its memory was given to a socket with another
\* hash
PaceSkbs ==
  {Skb(ncall + 1, 2, FALSE, 1, ts, ULONG_MAX) : ts \in {0, now + 1}}
  \cup {[Skb(ncall + 1, 2, FALSE, 1, 0, ULONG_MAX) EXCEPT !.sk_hash = 2]}

InitPace ==
  /\ \E tb \in {PaceOpt(0, LowRate, LowRate), PaceOpt(1, NoAttr, LowRate),
                 PaceOpt(1, LowRate, LowRate \div 2),
                 PaceOpt(1, LowRate, LowRate)} :
       InitWith(tb, NoIpCounts)
  /\ acct = NoAcct

NextPace ==
  \/ \E skb \in PaceSkbs : Enqueue(skb)
  \/ Dequeue
  \/ Tick
  \/ Watchdog

SpecPace == InitPace /\ [][NextPace]_vars

\* ------------------------------------------------------- one flow alone
\* one socket has queued n packets of one length without deadline, and
\* dequeue is called until they are gone.  Without pacing: 20 packets of
\* 1000 or 1500 bytes with a quantum of 1500 or 3000 and an initial quantum
\* of 15000.  With pacing: packets of 125000 bytes under a flow rate cap of
\* 1000000 bytes a second, with an initial quantum below and above the
\* packet length
PacedLen == BacklogLen + 2

ScenOpt(qu, iq, en, rate) ==
  [NoOpt EXCEPT !.PLIMIT = 20, !.FLOW_PLIMIT = 20, !.QUANTUM = qu,
                !.INITIAL_QUANTUM = iq, !.BUCKETS_LOG = 1,
                !.RATE_ENABLE = en, !.FLOW_MAX_RATE = rate,
                !.FLOW_REFILL_DELAY = 0]

Scenarios ==
  {[opt |-> ScenOpt(qu, 15000, 0, NoAttr), len |-> l, n |-> 20,
    paced |-> FALSE] : qu \in {1500, 3000}, l \in {1000, 1500}}
  \cup {[opt |-> ScenOpt(50000, iq, 1, 1000000), len |-> 125000,
          n |-> PacedLen, paced |-> TRUE] : iq \in {100000, 300000}}

\* the accounting only keeps which scenario is run
InitScen ==
  \E sc \in Scenarios :
    /\ InitFrom(Preload(marco_fq_init(sc.opt),
                        [i \in 1 .. sc.n |->
                           Skb(i, 2, FALSE, sc.len, 0, ULONG_MAX)]))
    /\ acct = [mode |-> "scen", len |-> sc.len, n |-> sc.n,
               paced |-> sc.paced]

NextScen ==
  \/ Dequeue
  \/ Watchdog
  \/ Lag

SpecScen == InitScen /\ [][NextScen]_vars

\* the selection loop of dequeue always ends within its fuel
LoopEnds == last.spin = FALSE

\* ------------------------------------------------------------ membership
\* the records a walk from the list head meets, following next pointers
RECURSIVE Walk(_, _)
Walk(p, n) ==
  IF p = NULL \/ n = 0 THEN <<>> ELSE <<p>> \o Walk(flows[p].next, n - 1)

ListOf(h) == Walk(q[h].first, NumSlots + 3)

\* in how many of {new list, old list, deferral index, detached} record s is
Memberships(s) ==
  Occurs(ListOf("new_flows"), s) + Occurs(ListOf("old_flows"), s)
  + Occurs(q.delayed, s) + (IF flows[s].detached THEN 1 ELSE 0)

Queue(f) == flows[f].head \o flows[f].t_root

\* C1: every flow record of the table is in exactly one membership state:
\* on the new list, on the old list, in the deferral index or detached; a
\* detached record is on no list and no record is linked twice.
C1_OneMembership ==
  \A s \in Slots : flows[s].linked => Memberships(s) = 1

\* C2: a packet returned by dequeue has the smallest stored deadline
\* (time_to_send) of all packets its flow held, FIFO and tree together, so
\* the packets enqueued to one flow leave in non-decreasing deadline order
C2_DeadlineOrder ==
  (last.op = "dequeue" /\ last.skb # NoSkb) =>
    \A i \in 1 .. Len(Queue(last.f)) :
      last.skb.time_to_send <= Queue(last.f)[i].time_to_send

\* a packet enqueued later, kept in the tree, overtakes an older FIFO packet
C2_Witness ==
  /\ last.op = "dequeue" /\ last.skb # NoSkb /\ last.f \in Slots
  /\ flows[last.f].head # <<>>
  /\ Head(flows[last.f].head).id < last.skb.id
  /\ Head(flows[last.f].head).time_to_send > last.skb.time_to_send

\* C3: every packet dequeue returns, the internal flow's included, has a
\* stored deadline that is not later than the clock.
C3_SendTimeRespected ==
  (last.op = "dequeue" /\ last.skb # NoSkb)
    => last.skb.time_to_send <= now

\* C3 (amended): every packet dequeue returns from a flow other than the
\* internal flow has a stored deadline that is not later than the clock.
C3_SendTimeRespectedByFlows ==
  (last.op = "dequeue" /\ last.skb # NoSkb /\ last.f # INTERNAL)
    => last.skb.time_to_send <= now

\* a packet with a deadline of its own has waited for it and left when due
C3_Witness ==
  /\ last.op = "dequeue"
  /\ last.f \in Slots
  /\ last.skb # NoSkb
  /\ last.skb.tstamp # 0
  /\ last.skb.time_to_send = now
  /\ last.skb.id < ncall

\* C4: dequeue returns no packet of a flow whose time_next_packet was later
\* than the clock when the flow was selected; a flow selected before that
\* time goes to the deferral index and stays there until the time has come.
C4_NotBeforeNextSend ==
  /\ (last.op = "dequeue" /\ last.skb # NoSkb) => last.next_send <= now
  /\ (last.op = "dequeue" /\ last.f \in Slots) =>
       \A i \in 1 .. Len(q.delayed) :
         flows[q.delayed[i]].time_next_packet > now

\* a paced flow was deferred although its packet was due, and served later
C4_Witness ==
  /\ last.op = "dequeue"
  /\ last.skb # NoSkb
  /\ last.f \in Slots
  /\ last.next_send = now
  /\ last.skb.time_to_send < last.next_send

\* C9: when the internal flow holds a packet, dequeue returns the earliest
\* packet of the internal flow and leaves the lists, the deferral index and
\* every flow record of the table (its credit included) as they were.
C9_InternalFirst ==
  [][(Dequeue /\ Queue(INTERNAL) # <<>>) =>
       /\ last'.f = INTERNAL
       /\ last'.skb = marco_fq_peek(flows[INTERNAL])
       /\ last'.skb # NoSkb
       /\ q' = q
       /\ \A s \in Slots \cup {THROTTLED} : flows'[s] = flows[s]]_vars

\* the internal flow was served while a listed flow had a packet waiting
C9_Witness ==
  /\ last.op = "dequeue"
  /\ last.f = INTERNAL
  /\ q.new_flows.first \in Slots
  /\ flows[q.new_flows.first].head # <<>>
  /\ flows[q.new_flows.first].credit > 0
  /\ Head(flows[q.new_flows.first].head).time_to_send <= now

\* C10: an enqueue is admitted only while the total is below the packet
\* limit, and when a configuration change has returned the total number of
\* queued packets is at most the limit
C10_LimitRespected ==
  /\ (last.op = "enqueue" /\ last.ret = NET_XMIT_SUCCESS) =>
       sch.qlen <= sch.limit
  /\ last.op = "change" => sch.qlen <= sch.limit

\* the head packet of flow record s may be sent now
Due(s) ==
  /\ flows[s].linked
  /\ marco_fq_peek(flows[s]) # NoSkb
  /\ SendTime(marco_fq_peek(flows[s]), flows[s], 0) <= now

Served(s) == last.op = "dequeue" /\ last.f = s /\ last.skb # NoSkb

\* C5: with dequeue called again and again while time advances, every
\* packet admitted to the paced flow is in the end returned, and none is
\* returned twice
C5_RoundTrip == <>[](acct.pending = {} /\ ~acct.dup)

\* C6: with dequeue called again and again while time advances, a flow
\* whose head packet may be sent is in the end served
C6_NoStarvation == \A s \in Slots : Due(s) ~> Served(s)

Abs(x) == IF x < 0 THEN 0 - x ELSE x

\* C7: in one turn at the head of its list a flow is served at most
\* quantum + MaxPktLen - 1 bytes more than the credit it began the turn with
C7_TurnBound ==
  acct.mode = "drr" =>
    \A s \in Slots :
      acct.turn[s].open =>
        acct.turn[s].bytes
          <= acct.turn[s].credit + q.quantum + MaxPktLen - 1

\* C7 (amended): the bound holds for a turn during which the socket of the
\* flow was not found to be a new one, which hands out the initial quantum
\* again
C7_TurnBoundOneSocket ==
  acct.mode = "drr" =>
    \A s \in Slots :
      (acct.turn[s].open /\ ~acct.turn[s].recycled) =>
        acct.turn[s].bytes
          <= acct.turn[s].credit + q.quantum + MaxPktLen - 1

\* a turn of two packets or more that ran past its credit as far as the
\* last packet allows
C7_Witness ==
  /\ acct.mode = "drr"
  /\ \E s \in Slots :
       /\ acct.turn[s].open /\ ~acct.turn[s].recycled
       /\ acct.turn[s].bytes = acct.turn[s].credit + MaxPktLen - 1
       /\ acct.turn[s].bytes > MaxPktLen

\* C8: while two flows are both backlogged with pacing off, the bytes
\* served to one and to the other differ by at most one quantum
C8_EqualShare ==
  (acct.mode = "drr" /\ acct.steady) =>
    Abs(acct.bytes[2] - acct.bytes[4]) <= q.quantum

\* C8 (amended): they differ by less than the larger of quantum and initial
\* quantum plus the longest packet, as long as no socket was replaced and
\* the address count delayed no packet
C8_ShareWithinTurn ==
  (acct.mode = "drr" /\ acct.steady /\ acct.plain) =>
    Abs(acct.bytes[2] - acct.bytes[4])
      <= Max(q.quantum, q.initial_quantum) + MaxPktLen - 1

\* both flows were served, and one is more than a quantum ahead
C8_Witness ==
  /\ acct.mode = "drr" /\ acct.steady /\ acct.plain
  /\ acct.bytes[2] > 0 /\ acct.bytes[4] > 0
  /\ Abs(acct.bytes[2] - acct.bytes[4]) > q.quantum

\* C11: an enqueue that has found its target flow is turned down for the
\* per-flow limit exactly when that flow is not the internal flow and holds
\* at least flow_plimit packets; the per-flow-limit counter then goes up by
\* one and otherwise stays, and no flow record of the table is ever longer
\* than flow_plimit
C11_FlowLimit ==
  [][(last'.op = "enqueue" /\ last'.why \notin {"limit", "horizon"}) =>
       LET f == last'.f
           hit == last'.why = "flow_plimit"
           qlen == IF hit THEN flows'[f].qlen ELSE flows'[f].qlen - 1
       IN /\ hit <=> (qlen >= q.flow_plimit /\ f # INTERNAL)
          /\ hit => last'.ret = NET_XMIT_DROP
          /\ q'.stat_flows_plimit
               = q.stat_flows_plimit + (IF hit THEN 1 ELSE 0)
          /\ \A s \in Slots :
               flows'[s].linked => flows'[s].qlen <= q'.flow_plimit]_vars

\* a flow that is full had a packet turned down while the total limit
\* still had room
C11_Witness ==
  /\ last.op = "enqueue" /\ last.why = "flow_plimit"
  /\ last.f \in Slots
  /\ flows[last.f].qlen = q.flow_plimit
  /\ sch.qlen < sch.limit
  /\ q.stat_flows_plimit = 1

\* C12: with the horizon-drop policy an enqueue below the total limit of a
\* packet whose deadline is beyond now + horizon drops the packet, counts
\* one horizon drop and changes no flow record and no packet count; and a
\* dequeue returns only a packet that was queued, so never the dropped one
C12_HorizonDrop ==
  [][/\ (/\ last'.op = "enqueue"
          /\ last'.skb.tstamp > now + q.horizon
          /\ q.horizon_drop # 0
          /\ sch.qlen < sch.limit) =>
            /\ last'.why = "horizon"
            /\ last'.ret = NET_XMIT_DROP
            /\ q'.stat_horizon_drops = q.stat_horizon_drops + 1
            /\ flows' = flows
            /\ sch' = sch
            /\ q'.new_flows = q.new_flows /\ q'.old_flows = q.old_flows
            /\ q'.delayed = q.delayed
     /\ (last'.op = "dequeue" /\ last'.skb # NoSkb) =>
            \E f \in FlowPtrs : \E i \in 1 .. Len(Queue(f)) :
              Queue(f)[i].id = last'.skb.id]_vars

\* a packet beyond the horizon was dropped while another flow had a packet
C12_Witness ==
  /\ last.op = "enqueue" /\ last.why = "horizon"
  /\ last.skb.tstamp > now + q.horizon
  /\ q.stat_horizon_drops = 1
  /\ sch.qlen > 0 /\ sch.qlen < sch.limit

\* C13: right after reset no flow record is left in the table, no packet is
\* queued (the internal flow included), the backlog is zero, both lists and
\* the deferral index are empty, and one more reset would change nothing
C13_ResetIdempotent ==
  last.op = "reset" =>
    /\ \A s \in Slots : ~flows[s].linked
    /\ q.flows = 0 /\ q.inactive_flows = 0 /\ q.throttled_flows = 0
    /\ Queue(INTERNAL) = <<>> /\ flows[INTERNAL].qlen = 0
    /\ sch.qlen = 0 /\ sch.backlog = 0
    /\ q.new_flows.first = NULL /\ q.old_flows.first = NULL
    /\ q.delayed = <<>>
    /\ marco_fq_reset(State) = State

\* the reset found one flow in the deferral index and another on a list
C13_Witness ==
  /\ last.op = "reset"
  /\ \E s, t \in Slots :
       /\ flows[s].sk # 0 /\ flows[s].next = THROTTLED
       /\ flows[t].sk # 0 /\ flows[t].next # THROTTLED /\ ~flows[t].detached

\* C14: the enqueue that makes a record for a socket whose earlier record
\* was collected leaves that record with the initial quantum as credit, a
\* next send time of zero, outside the deferral index and holding nothing
\* but the packet just enqueued
C14_FreshRecord ==
  (acct.mode = "gc" /\ last.op = "enqueue" /\ acct.was.linked) =>
    /\ last.f \in Slots
    /\ flows[last.f].credit = q.initial_quantum
    /\ flows[last.f].time_next_packet = 0
    /\ ~marco_fq_flow_is_throttled(flows[last.f])
    /\ Occurs(q.delayed, last.f) = 0
    /\ flows[last.f].qlen = 1
    /\ Queue(last.f)
         = (IF last.ret = NET_XMIT_SUCCESS THEN <<last.skb>> ELSE <<>>)

\* the collected record was idle with a credit other than the initial
\* quantum, and the new record lies in the memory of a released one
C14_Witness ==
  /\ acct.mode = "gc" /\ last.op = "enqueue" /\ last.f \in Slots
  /\ acct.was.linked /\ acct.was.detached /\ acct.was.qlen = 0
  /\ acct.was.credit # q.initial_quantum
  /\ last.ret = NET_XMIT_SUCCESS

\* the parameters a configuration message can set
Config ==
  <<sch.limit, q.flow_plimit, q.quantum, q.initial_quantum, q.flow_max_rate,
    q.low_rate_threshold, q.rate_enable, q.flow_refill_delay, q.orphan_mask,
    q.ce_threshold, q.timer_slack, q.horizon, q.horizon_drop,
    q.fq_trees_log>>

\* C15: a configuration change that is refused for an invalid parameter
\* leaves every parameter as it was before the call
C15_AllOrNothing ==
  [][(last'.op = "change" /\ last'.ret = EINVAL) => Config' = Config]_vars

\* C16: from the first parameter update of a configuration change to the
\* end of its draining no enqueue and no dequeue of the data path runs
C16_ChangeExclusive ==
  [][ctl.pc # "idle" => last'.op \notin {"enqueue", "dequeue"}]_vars

\* record s is in the deferral index before the step and not after it
Leaves(s) == Occurs(q.delayed, s) > 0 /\ Occurs(q'.delayed, s) = 0

\* after the step record s is on the old list and not on the new list
OnOldList(s) ==
  /\ Occurs(WalkIn(flows', q'.old_flows.first, NumSlots + 3), s) = 1
  /\ Occurs(WalkIn(flows', q'.new_flows.first, NumSlots + 3), s) = 0

\* C17: a flow leaves the deferral index only when its next send time is
\* not later than the clock, and it is then on the old list and not on the
\* new list
C17_LeavesWhenDue ==
  [][\A s \in Slots :
       Leaves(s) => (flows[s].time_next_packet <= now /\ OnOldList(s))]_vars

\* C17 (amended): a flow leaves the deferral index in a dequeue that finds
\* its next send time not later than the clock, or in an enqueue that finds
\* its socket replaced, whatever the time; both put it on the old list
C17_LeavesWhenDueOrRecycled ==
  [][\A s \in Slots :
       Leaves(s) =>
         /\ OnOldList(s)
         /\ \/ /\ last'.op = "dequeue"
               /\ flows[s].time_next_packet <= now
            \/ /\ last'.op = "enqueue" /\ last'.f = s
               /\ flows'[s].socket_hash # flows[s].socket_hash
               /\ flows'[s].time_next_packet = 0]_vars

\* a flow that was deferred until now has left the index and was served
\* from the old list
C17_Witness ==
  /\ last.op = "dequeue" /\ last.f \in Slots /\ last.skb # NoSkb
  /\ now > 0 /\ last.next_send = now
  /\ q.old_flows.first = last.f
  /\ Occurs(q.delayed, last.f) = 0

\* the scenario of 20 packets of 1000 bytes, quantum 1500, initial quantum
\* 15000, no pacing
Rounds ==
  /\ acct.mode = "scen" /\ ~acct.paced
  /\ acct.n = 20 /\ acct.len = 1000
  /\ q.quantum = 1500 /\ q.initial_quantum = 15000 /\ q.rate_enable = 0

\* the packets served so far, and the times the credit was refilled
ServedCount == acct.n - sch.qlen

Refills ==
  LET s == CHOOSE x \in Slots : flows[x].linked IN
  (flows[s].credit - q.initial_quantum + acct.len * ServedCount)
    \div q.quantum

\* every call returns the next packet in the order of arrival
InOrder ==
  last.op = "dequeue" =>
    IF last.skb = NoSkb THEN ServedCount = acct.n
    ELSE last.skb.id = ServedCount

\* C18: in the scenario the 20 packets come back in order, one a call, and
\* the credit is refilled once in all (two credit rounds)
C18_TwoRounds ==
  Rounds => (InOrder /\ Refills <= 1)

\* C18 (amended): the 20 packets come back in order, one a call, in four
\* credit rounds: 15 packets use up the initial quantum, and the credit is
\* refilled before packets 16, 18 and 19
C18_FourRounds ==
  Rounds =>
    /\ InOrder
    /\ Refills = (IF ServedCount <= 15 THEN 0
                  ELSE IF ServedCount <= 17 THEN 1
                  ELSE IF ServedCount = 18 THEN 2 ELSE 3)

\* the last of the 20 packets has come back and the credit is 500 short
C18_Witness ==
  /\ Rounds
  /\ last.op = "dequeue" /\ last.skb # NoSkb /\ last.skb.id = 20
  /\ ServedCount = 20 /\ Refills = 3
  /\ \E s \in Slots : flows[s].linked /\ flows[s].credit = 0 - 500

\* the scenario of packets of 125000 bytes under a flow rate cap of 1000000
\* bytes a second: 125 ms a packet
Paced ==
  /\ acct.mode = "scen" /\ acct.paced /\ acct.len = 125000
  /\ q.rate_enable = 1 /\ q.flow_max_rate = 1000000

PacketTime == (125 * NSEC_PER_SEC) \div 1000

\* the flow's next send time after a packet left it at the time now, prev
\* being its next send time before
PacedNext(prev) ==
  IF prev = 0 THEN now + PacketTime
  ELSE now + PacketTime - Min(PacketTime \div 2, now - prev)

\* C19: in the pacing scenario every dequeue that returns a packet sets the
\* flow's next send time to now + 125 ms less the drift correction of
\* min(half of that, now - previous next send time); the delay is at most
\* one second, and without drift the packets leave 125 ms apart
C19_EachDequeuePaces ==
  [][(Paced /\ last'.op = "dequeue" /\ last'.skb # NoSkb) =>
       /\ flows'[last'.f].time_next_packet =
            PacedNext(flows[last'.f].time_next_packet)
       /\ flows'[last'.f].time_next_packet - now <= NSEC_PER_SEC]_vars

\* C19 (amended): a dequeue that returns a packet and leaves the flow
\* without credit (credit <= 0 once the packet is paid) sets the flow's
\* next send time to now + 125 ms less the drift correction, which is
\* applied once the flow has a next send time; the delay is at most one
\* second, and the next packet leaves no earlier than that time.  A
\* dequeue that leaves the flow with credit keeps its next send time
C19_PacesWithoutCredit ==
  [][(Paced /\ last'.op = "dequeue" /\ last'.skb # NoSkb) =>
       /\ flows'[last'.f].time_next_packet =
            (IF flows'[last'.f].credit <= 0
             THEN PacedNext(flows[last'.f].time_next_packet)
             ELSE flows[last'.f].time_next_packet)
       /\ flows'[last'.f].time_next_packet - now <= NSEC_PER_SEC
       /\ flows[last'.f].time_next_packet <= now]_vars

\* the third packet is due 125 ms after the second and leaves two ticks
\* late, and the correction takes the two ticks off the next delay
C19_Witness ==
  /\ Paced /\ last.op = "dequeue" /\ last.skb # NoSkb
  /\ last.skb.id = 3
  /\ last.next_send = 2 * PacketTime
  /\ now = last.next_send + 2
  /\ flows[last.f].credit <= 0
  /\ flows[last.f].time_next_packet = last.next_send + PacketTime

\* after the step record s is the last of the new list
AtNewTail(s) ==
  /\ q'.new_flows.last = s
  /\ Occurs(WalkIn(flows', q'.new_flows.first, NumSlots + 3), s) >= 1
  /\ flows'[s].next = NULL

\* C20: a packet admitted for a detached flow puts the flow at the tail of
\* the new list; if the flow was idle for longer than the refill delay its
\* credit becomes the larger of its previous credit and the quantum, as
\* signed values; and no enqueue lowers the credit of a flow
C20_RefillSigned ==
  [][(last'.op = "enqueue" /\ last'.ret = NET_XMIT_SUCCESS
        /\ last'.f \in Slots) =>
       /\ (flows[last'.f].linked
             /\ marco_fq_flow_is_detached(flows[last'.f])) =>
            /\ AtNewTail(last'.f)
            /\ time_after(jiffies, flows[last'.f].age + q.flow_refill_delay)
                 => /\ flows'[last'.f].credit =
                         Max(flows[last'.f].credit, q.quantum)
                    /\ flows'[last'.f].credit >= q.quantum
       /\ \A s \in Slots :
            (flows[s].linked /\ flows'[s].linked)
              => flows'[s].credit >= flows[s].credit]_vars

\* what the visit of lines 643-649 makes of the state when the flow at the
\* head of list h has no credit: one quantum more, the flow off the head of
\* h and last of the old list, its packets and the totals as they were
RefillVisitOk(h) ==
  LET f == q[h].first
      T == RefillVisit(State, h, f)
  IN (f # NULL /\ flows[f].credit <= 0) =>
       /\ T.flows[f].credit = flows[f].credit + q.quantum
       /\ T.q.old_flows.last = f /\ T.flows[f].next = NULL
       /\ Occurs(WalkIn(T.flows, T.q.old_flows.first, NumSlots + 3), f) = 1
       /\ Occurs(WalkIn(T.flows, T.q.new_flows.first, NumSlots + 3), f) = 0
       /\ flows[f].next # NULL => T.q[h].first = flows[f].next
       /\ T.flows[f].head = flows[f].head
       /\ T.flows[f].t_root = flows[f].t_root
       /\ T.flows[f].qlen = flows[f].qlen
       /\ T.sch = sch

\* C21: a flow met without credit at the head of a list gets one quantum,
\* leaves the head of its list for the tail of the old list, keeps its
\* packets and is not served in that visit; and a flow whose credit ran
\* out on the new list is not on the new list again before it was idle
C21_RefillRotates ==
  [][/\ RefillVisitOk("new_flows")
     /\ RefillVisitOk("old_flows")
     /\ \A s \in acct.set :
          (acct'.mode = "spent" /\ s \in acct'.set) =>
            Occurs(WalkIn(flows', q'.new_flows.first, NumSlots + 3), s) = 0
    ]_vars

\* the time by which the packet of the dequeue left after the time it was
\* scheduled for (time_next_packet of lines 654-676)
SendLag == now - last'.tnp

\* C22: a packet is marked, and stat_ce_mark goes up, only if pacing is
\* enabled and the packet leaves later than its scheduled time by more
\* than the congestion threshold
C22_MarkOnlyWhenPaced ==
  [][q'.stat_ce_mark # q.stat_ce_mark =>
       /\ q.rate_enable # 0
       /\ last'.op = "dequeue" /\ last'.skb # NoSkb
       /\ SendLag > q.ce_threshold]_vars

\* C22 (amended): a packet that dequeue takes from a flow of the table is
\* marked, and stat_ce_mark goes up by one, exactly when it leaves later
\* than its scheduled time by more than the congestion threshold, with
\* pacing enabled or not; nothing else changes stat_ce_mark
C22_MarkWhenLate ==
  [][q'.stat_ce_mark =
       q.stat_ce_mark
       + (IF last'.op = "dequeue" /\ last'.skb # NoSkb /\ last'.f \in Slots
             /\ SendLag > q.ce_threshold
          THEN 1 ELSE 0)]_vars

\* with pacing disabled a packet was marked, and the next left on time and
\* was not
C22_Witness ==
  /\ q.rate_enable = 0 /\ q.stat_ce_mark = 1
  /\ last.op = "dequeue" /\ last.skb # NoSkb /\ last.f \in Slots
  /\ now = last.tnp /\ last.tnp = Max(last.skb.time_to_send, last.next_send)

\* the dequeue returned a packet of a flow of the table and the next send
\* time of that flow is not what it was
PacedStep ==
  /\ last'.op = "dequeue" /\ last'.skb # NoSkb /\ last'.f \in Slots
  /\ flows'[last'.f].time_next_packet # flows[last'.f].time_next_packet

\* C23: the dequeue of a packet changes the next send time of its flow
\* only if pacing is enabled and the packet carried no deadline
C23_OnlyWithoutDeadline ==
  [][PacedStep => (q.rate_enable # 0 /\ last'.skb.tstamp = 0)]_vars

\* C23 (amended): the dequeue of a packet changes the next send time of
\* its flow only if pacing is enabled and either the packet carried no
\* deadline or a flow rate cap is configured; with pacing disabled, or for
\* a packet with a deadline when no cap is configured, it is left as it was
C23_OnlyWithoutDeadlineOrCapped ==
  [][PacedStep =>
       /\ q.rate_enable # 0
       /\ last'.skb.tstamp = 0 \/ q.flow_max_rate # ULONG_MAX]_vars

\* a packet with a deadline left a capped flow and moved its next send time
C23_Witness ==
  /\ last.op = "dequeue" /\ last.skb # NoSkb /\ last.f \in Slots
  /\ last.skb.tstamp # 0
  /\ q.rate_enable = 1 /\ q.flow_max_rate = LowRate
  /\ flows[last.f].time_next_packet # last.next_send
  /\ flows[last.f].time_next_packet = now + 2

\* with pacing enabled the dequeue returned a packet without deadline of a
\* flow whose rate, the lower of the flow rate cap and the rate of the
\* socket, is at or below the low-rate threshold
LowRateStep ==
  /\ last'.op = "dequeue" /\ last'.skb # NoSkb /\ last'.f \in Slots
  /\ q.rate_enable # 0 /\ last'.skb.tstamp = 0
  /\ Min(last'.skb.rate, q.flow_max_rate) <= q.low_rate_threshold

\* C26: the dequeue of a packet without deadline from a flow at or below
\* the low-rate threshold computes no delay and leaves the next send time
\* of the flow as it was, not in the future
C26_LowRateUnpaced ==
  [][LowRateStep =>
       /\ flows'[last'.f].time_next_packet
            = flows[last'.f].time_next_packet
       /\ flows'[last'.f].time_next_packet <= now]_vars

\* C26 (amended): the dequeue of a packet without deadline from a flow at
\* or below the low-rate threshold sets the credit of the flow to 0 and
\* paces the packet on its own length: the next send time becomes now plus
\* length / rate, at most one second, less the drift correction
C26_LowRatePacedPerPacket ==
  [][LowRateStep =>
       LET rate == Min(last'.skb.rate, q.flow_max_rate)
           len == Min(NSEC_PER_SEC, (last'.skb.len * NSEC_PER_SEC) \div rate)
       IN /\ rate > 0
          /\ flows'[last'.f].credit = 0
          /\ flows'[last'.f].time_next_packet =
               now + Drift(len, flows[last'.f].time_next_packet, now)]_vars

\* a flow at the threshold had a credit of 3 when its packet of one byte
\* was taken: the credit is 0 and the next packet has to wait two ticks
C26_Witness ==
  /\ last.op = "dequeue" /\ last.skb # NoSkb /\ last.f \in Slots
  /\ q.rate_enable = 1 /\ last.skb.tstamp = 0
  /\ q.flow_max_rate = LowRate /\ q.low_rate_threshold = LowRate
  /\ last.credit = 3 /\ flows[last.f].credit = 0
  /\ flows[last.f].time_next_packet = now + 2

\* the smallest time_next_packet of the flows in the deferral index
MinKey ==
  CHOOSE k \in {flows[s].time_next_packet : s \in Slots} :
    /\ \E i \in 1 .. Len(q.delayed) : flows[q.delayed[i]].time_next_packet = k
    /\ \A i \in 1 .. Len(q.delayed) : flows[q.delayed[i]].time_next_packet >= k

\* the last call was a dequeue that found packets queued, both lists empty
\* and flows in the deferral index
FoundAllDeferred ==
  /\ last.op = "dequeue" /\ last.skb = NoSkb /\ ~last.spin
  /\ sch.qlen > 0
  /\ q.new_flows.first = NULL /\ q.old_flows.first = NULL
  /\ q.delayed # <<>>

\* C24: a dequeue that finds both lists empty and the deferral index not
\* empty returns nothing and sets the watchdog to the smallest next send
\* time in the index; the tracked minimum is never later than it
C24_WakeAtSmallest ==
  /\ FoundAllDeferred => q.watchdog = MinKey
  /\ q.delayed # <<>> => q.time_next_delayed_flow <= MinKey

\* C24 (amended): such a dequeue sets the watchdog to the tracked minimum,
\* which is later than the clock and never later than the smallest next
\* send time in the index
C24_WakeAtTracked ==
  /\ FoundAllDeferred =>
       /\ q.watchdog = q.time_next_delayed_flow
       /\ q.watchdog > now
  /\ q.delayed # <<>> => q.time_next_delayed_flow <= MinKey

\* the watchdog was set before the smallest next send time in the index
C24_Witness ==
  /\ FoundAllDeferred
  /\ q.watchdog < MinKey

\* record s is idle beyond the age at which records are collected: tagged
\* detached for longer than FQ_GC_AGE, on no list and not deferred
IdleBeyondAge(s) ==
  /\ marco_fq_gc_candidate(flows[s], jiffies)
  /\ OffLists(State, s)

\* the records of the table that the step discards
Discarded == {s \in Slots : flows[s].linked /\ ~flows'[s].linked}

\* C25: a resize to another number of shards keeps every record that is
\* not idle beyond the collection age, findable under its socket and with
\* its queue, credit, next send time and list or deferral membership as
\* they were; it discards only records idle beyond that age, and the flow
\* and idle-flow counters go down by the number discarded
C25_ResizeKeeps ==
  [][(last'.op = "change_resize" /\ q'.fq_trees_log # q.fq_trees_log) =>
       /\ \A s \in Slots :
            flows[s].linked =>
              IF s \in Discarded
              THEN IdleBeyondAge(s)
              ELSE /\ flows'[s] = flows[s]
                   /\ Lookup([flows |-> flows', q |-> q'], flows[s].sk) = {s}
       /\ q'.new_flows = q.new_flows /\ q'.old_flows = q.old_flows
       /\ q'.delayed = q.delayed
       /\ q'.flows = q.flows - Cardinality(Discarded)
       /\ q'.inactive_flows = q.inactive_flows - Cardinality(Discarded)]_vars

\* the sum of the queue lengths of the records in set T
RECURSIVE SumQlen(_)
SumQlen(T) ==
  IF T = {} THEN 0
  ELSE LET s == CHOOSE x \in T : TRUE IN flows[s].qlen + SumQlen(T \ {s})

\* C27: in every state the total packet count is the sum of the queue
\* lengths of all flows, the internal flow included; the queue length of a
\* flow is the number of packets in its FIFO and its tree; the flow counter
\* is the number of records of the table, the idle-flow counter the number
\* of records tagged detached, and the throttled counter the number of
\* records in the deferral index
C27_Counters ==
  LET T == {s \in Slots : flows[s].linked} IN
  /\ sch.qlen = SumQlen(T \cup {INTERNAL})
  /\ \A s \in T \cup {INTERNAL} : flows[s].qlen = Len(Queue(s))
  /\ q.flows = Cardinality(T)
  /\ q.inactive_flows = Cardinality({s \in T : flows[s].detached})
  /\ q.throttled_flows = Len(q.delayed)

\* C28: an enqueue that returns anything but success leaves the packet in
\* no queue, and the queue length and the list, deferral and idle
\* membership of every flow, the backlog and the total packet count as
\* they were
C28_FailedEnqueueNoEffect ==
  [][(last'.op = "enqueue" /\ last'.ret # NET_XMIT_SUCCESS) =>
       /\ \A s \in Slots \cup {INTERNAL} :
            \A i \in 1 .. Len(flows'[s].head \o flows'[s].t_root) :
              (flows'[s].head \o flows'[s].t_root)[i].id # last'.skb.id
       /\ \A s \in Slots \cup {INTERNAL} :
            (s = INTERNAL \/ flows[s].linked) =>
              /\ flows'[s].qlen = flows[s].qlen
              /\ flows'[s].next = flows[s].next
              /\ flows'[s].detached = flows[s].detached
              /\ flows'[s].linked = flows[s].linked
       /\ q'.new_flows = q.new_flows /\ q'.old_flows = q.old_flows
       /\ q'.delayed = q.delayed
       /\ sch'.backlog = sch.backlog /\ sch'.qlen = sch.qlen]_vars

====
